---- MODULE Spec2Model ----
(***************************************************************************)
(* HackTracker: the single-table store (Team, Membership, Player, Game     *)
(* rows) and the request handlers that read and write it.  Every handler   *)
(* is one action; the row it returns to its caller is kept in resp.  A     *)
(* handler that is followed between its read and its write keeps its       *)
(* request in inflight from the one step to the other.                     *)
(***************************************************************************)
EXTENDS Integers, Sequences, FiniteSets, TLC

VARIABLES team, member, player, game, resp, inflight, user, atbat, now, stamps

vars == <<team, member, player, game, resp, inflight, user, atbat, now, stamps>>

(* ---------------------------------------------------------------------- *)
(* Bounds: how many identifiers of each kind the requests draw from.       *)
(* ---------------------------------------------------------------------- *)
MaxUsers == 2
MaxTeams == 3
MaxPlayers == 3
MaxGames == 2
MaxAtBats == 2

Users == 1..MaxUsers
TeamIds == 1..MaxTeams
PlayerIds == 1..MaxPlayers
GameIds == 1..MaxGames
AtBatIds == 1..MaxAtBats

(* A key with no item under it (get_item answers without 'Item').          *)
NoRow == [kind |-> "none"]
(* Python None for userId; an attribute the item does not carry.           *)
None == 0
Absent == "absent"

Roles == {"team-owner", "team-coach", "team-player", "team-viewer"}
MemberStatuses == {"active", "inactive"}

(* ---------------------------------------------------------------------- *)
(* utils/authorization.py                                                  *)
(* ---------------------------------------------------------------------- *)
MANAGE_ROSTER_ROLES == {"team-owner", "team-coach"}
MANAGE_TEAM_ROLES == {"team-owner", "team-coach"}
DELETE_TEAM_ROLES == {"team-owner"}

POLICY_MAP ==
  [manage_roster |-> MANAGE_ROSTER_ROLES,
   manage_team |-> MANAGE_TEAM_ROLES,
   delete_team |-> DELETE_TEAM_ROLES]

(* The action strings the handlers pass to authorize.                      *)
ActionNames ==
  {"manage_roster", "manage_team", "delete_team", "manage_games", "manage_atbats"}

(* POLICY_MAP.get(action): the role set, or nothing for an unknown action. *)
PolicyGetWithGames(action) ==
  IF action \in DOMAIN POLICY_MAP THEN POLICY_MAP[action]
  ELSE IF action = "manage_games" THEN {"team-owner", "team-coach"}
  ELSE {}

PolicyGetWithGamesAndAtBats(action) ==
  IF action \in DOMAIN POLICY_MAP THEN POLICY_MAP[action]
  ELSE IF action \in {"manage_games", "manage_atbats"}
    THEN {"team-owner", "team-coach"}
  ELSE {}

PolicyGet(action) ==
  IF action \in DOMAIN POLICY_MAP THEN POLICY_MAP[action] ELSE {}

(* _check_team_role: "ok", or the reason of the PermissionError it raises. *)
CheckTeamRoleAnyStatus(u, t, required_roles) ==
  LET m == member[u, t] IN
    IF m = NoRow THEN "not_member"
    ELSE IF m.role \notin required_roles THEN "insufficient"
    ELSE "ok"

CheckTeamRole(u, t, required_roles) ==
  LET m == member[u, t] IN
    IF m = NoRow THEN "not_member"
    ELSE IF m.status # "active" THEN "inactive"
    ELSE IF m.role \notin required_roles THEN "insufficient"
    ELSE "ok"

(* authorize: an action with no role set is refused before any lookup.     *)
Authorize(u, t, action) ==
  LET required_roles == PolicyGet(action) IN
    IF required_roles = {} THEN "invalid_action"
    ELSE CheckTeamRole(u, t, required_roles)

(* check_personal_team_operation: "ok" or the PermissionError's reason.    *)
BlockedOperations == {"manage_roster", "delete_team", "manage_team"}

CheckPersonalTeamOperation(t, operation) ==
  IF team[t] = NoRow THEN "team_not_found"
  ELSE IF ~team[t].isPersonal THEN "ok"
  ELSE IF operation \in BlockedOperations THEN "blocked"
  ELSE "ok"

(* team.get('team_type', 'MANAGED') of the handlers that gate on the type. *)
TeamTypeByFlag(row) ==
  IF row.isPersonal THEN "PERSONAL" ELSE "MANAGED"

TeamTypeOf(row) ==
  IF row.team_type = Absent THEN "MANAGED" ELSE row.team_type

(* ---------------------------------------------------------------------- *)
(* Rows                                                                    *)
(* ---------------------------------------------------------------------- *)
TeamRow(owner, name, type, personal) ==
  [ownerId |-> owner, name |-> name, status |-> "active",
   team_type |-> type, isPersonal |-> personal]

MemberRow(role, status) == [role |-> role, status |-> status]

PlayerRow(ghost, userId, status) ==
  [isGhost |-> ghost, userId |-> userId, status |-> status]

OwnerMembership == MemberRow("team-owner", "active")

(* A Team row's timestamps: updatedAt, and deletedAt (None until the soft  *)
(* delete).  They are held beside the row, keyed by the team id, and are   *)
(* read off the handler's clock, now.                                      *)
Stamp(updatedAt, deletedAt) == [updatedAt |-> updatedAt, deletedAt |-> deletedAt]

NoStamp == Stamp(None, None)

Response(op, code, u, t, id, arg) ==
  [op |-> op, code |-> code, user |-> u, team |-> t, id |-> id, arg |-> arg]

(* No answer pending: an invocation starts here.                           *)
NoResponse == Response("none", 0, None, None, 0, "")

Idle == resp = NoResponse

(* ---------------------------------------------------------------------- *)
(* teams/create/handler.py: POST /teams                                    *)
(* ---------------------------------------------------------------------- *)
(* Request names: none given, one the validator refuses, and a clean one.  *)
MissingName == ""
BadName == "ab"
CleanNames == {"Rockets"}
NameInputs == {MissingName, BadName} \cup CleanNames

(* The transaction's two conditional puts: both keys must be free.         *)
TeamCreateCondition(u, tid) ==
  team[tid] = NoRow /\ member[u, tid] = NoRow

TeamCreateCode(u, tid, name) ==
  IF name = MissingName \/ name = BadName THEN 400
  ELSE IF TeamCreateCondition(u, tid) THEN 201
  ELSE 409

TeamCreateWritesTeamOnly(u, tid, name) ==
  /\ team' = [team EXCEPT ![tid] = TeamRow(u, name, Absent, FALSE)]
  /\ UNCHANGED member

TeamCreateWrites(u, tid, name) ==
  /\ team' = [team EXCEPT ![tid] = TeamRow(u, name, Absent, FALSE)]
  /\ member' = [member EXCEPT ![u, tid] = OwnerMembership]

TeamCreate(u, tid, name) ==
  LET code == TeamCreateCode(u, tid, name) IN
    /\ Idle
    /\ IF code = 201
         THEN TeamCreateWrites(u, tid, name)
         ELSE UNCHANGED <<team, member>>
    /\ resp' = Response("TeamCreate", code, u, tid, 0, name)
    /\ stamps' = IF code = 201
                  THEN [stamps EXCEPT ![tid] = Stamp(now, None)]
                  ELSE stamps
    /\ UNCHANGED <<player, game, inflight, user, atbat, now>>

(* ---------------------------------------------------------------------- *)
(* utils/personal_team.py: create_personal_team                            *)
(* ---------------------------------------------------------------------- *)
PersonalTeamCondition(u, tid, pid) ==
  team[tid] = NoRow /\ member[u, tid] = NoRow /\ player[tid, pid] = NoRow

(* resp.code 1: (team_id, player_id) returned; 0: (None, None) returned.   *)
CreatePersonalTeamGhostOwner(u, tid, pid) ==
  /\ Idle
  /\ IF PersonalTeamCondition(u, tid, pid)
       THEN /\ team' = [team EXCEPT ![tid] = TeamRow(u, "Personal Stats", Absent, TRUE)]
            /\ member' = [member EXCEPT ![u, tid] = OwnerMembership]
            /\ player' = [player EXCEPT ![tid, pid] = PlayerRow(TRUE, u, "active")]
       ELSE UNCHANGED <<team, member, player>>
  /\ resp' = Response("create_personal_team",
                      IF PersonalTeamCondition(u, tid, pid) THEN 1 ELSE 0,
                      u, tid, pid, "")
  /\ stamps' = IF PersonalTeamCondition(u, tid, pid)
                THEN [stamps EXCEPT ![tid] = Stamp(now, None)]
                ELSE stamps
  /\ UNCHANGED <<game, inflight, user, atbat, now>>

CreatePersonalTeam(u, tid, pid) ==
  /\ Idle
  /\ IF PersonalTeamCondition(u, tid, pid)
       THEN /\ team' = [team EXCEPT ![tid] = TeamRow(u, "Personal Stats", Absent, TRUE)]
            /\ member' = [member EXCEPT ![u, tid] = OwnerMembership]
            /\ player' = [player EXCEPT ![tid, pid] = PlayerRow(FALSE, u, "active")]
       ELSE UNCHANGED <<team, member, player>>
  /\ resp' = Response("create_personal_team",
                      IF PersonalTeamCondition(u, tid, pid) THEN 1 ELSE 0,
                      u, tid, pid, "")
  /\ stamps' = IF PersonalTeamCondition(u, tid, pid)
                THEN [stamps EXCEPT ![tid] = Stamp(now, None)]
                ELSE stamps
  /\ UNCHANGED <<game, inflight, user, atbat, now>>

(* ---------------------------------------------------------------------- *)
(* teams/update/handler.py: PATCH /teams/{teamId} with body {name}         *)
(* ---------------------------------------------------------------------- *)
TeamUpdateCode(u, t, name) ==
  IF name = MissingName THEN 400
  ELSE IF Authorize(u, t, "manage_team") # "ok" THEN 403
  ELSE IF team[t] = NoRow THEN 404
  ELSE IF team[t].status = "deleted" THEN 404
  ELSE IF name = BadName THEN 400
  ELSE 200

TeamUpdate(u, t, name) ==
  LET code == TeamUpdateCode(u, t, name) IN
    /\ Idle
    /\ IF code = 200
         THEN team' = [team EXCEPT ![t].name = name]
         ELSE UNCHANGED team
    /\ resp' = Response("TeamUpdate", code, u, t, 0, name)
    /\ stamps' = IF code = 200
                  THEN [stamps EXCEPT ![t].updatedAt = now]
                  ELSE stamps
    /\ UNCHANGED <<member, player, game, inflight, user, atbat, now>>

(* ---------------------------------------------------------------------- *)
(* teams/delete/handler.py: DELETE /teams/{teamId} (soft delete)           *)
(* ---------------------------------------------------------------------- *)
TeamDeleteCode(u, t) ==
  IF CheckPersonalTeamOperation(t, "delete_team") # "ok" THEN 403
  ELSE IF Authorize(u, t, "delete_team") # "ok" THEN 403
  ELSE IF team[t] = NoRow THEN 404
  ELSE IF team[t].status = "deleted" THEN 404
  ELSE 204

TeamDeleteWritesFirst(u, t) ==
  LET code == TeamDeleteCode(u, t) IN
    /\ Idle
    /\ IF team[t] # NoRow
         THEN team' = [team EXCEPT ![t].status = "deleted"]
         ELSE UNCHANGED team
    /\ resp' = Response("TeamDelete", code, u, t, 0, "")
    /\ stamps' = IF team[t] # NoRow
                  THEN [stamps EXCEPT ![t] = Stamp(now, now)]
                  ELSE stamps
    /\ UNCHANGED <<member, player, game, inflight, user, atbat, now>>

TeamDelete(u, t) ==
  LET code == TeamDeleteCode(u, t) IN
    /\ Idle
    /\ IF code = 204
         THEN team' = [team EXCEPT ![t].status = "deleted"]
         ELSE UNCHANGED team
    /\ resp' = Response("TeamDelete", code, u, t, 0, "")
    /\ stamps' = IF code = 204
                  THEN [stamps EXCEPT ![t] = Stamp(now, now)]
                  ELSE stamps
    /\ UNCHANGED <<member, player, game, inflight, user, atbat, now>>

(* ---------------------------------------------------------------------- *)
(* players/add/handler.py: POST /teams/{teamId}/players                    *)
(* ---------------------------------------------------------------------- *)
MissingFirstName == ""
FirstNameInputs == {MissingFirstName, "Ann"}

PlayerAddCode(u, t, pid, first) ==
  IF first = MissingFirstName THEN 400
  ELSE IF team[t] = NoRow THEN 404
  ELSE IF TeamTypeOf(team[t]) = "PERSONAL" THEN 400
  ELSE IF Authorize(u, t, "manage_roster") # "ok" THEN 403
  ELSE IF player[t, pid] # NoRow THEN 409
  ELSE 201

PlayerAdd(u, t, pid, first) ==
  LET code == PlayerAddCode(u, t, pid, first) IN
    /\ Idle
    /\ IF code = 201
         THEN player' = [player EXCEPT ![t, pid] = PlayerRow(TRUE, None, "active")]
         ELSE UNCHANGED player
    /\ resp' = Response("PlayerAdd", code, u, t, pid, first)
    /\ UNCHANGED <<team, member, game, inflight, user, atbat, now, stamps>>

(* ---------------------------------------------------------------------- *)
(* players/update/handler.py: PUT /teams/{teamId}/players/{playerId}       *)
(* The body is one field: a read-only one, or status with a value.         *)
(* ---------------------------------------------------------------------- *)
ReadOnlyField == "isGhost"
(* validate_player_status accepts these; the requests send two of them.    *)
PlayerStatuses == {"active", "inactive", "sub"}
PlayerUpdateInputs == {ReadOnlyField, "bogus", "active", "inactive"}

PlayerUpdateCode(u, t, pid, field) ==
  IF field = ReadOnlyField THEN 400
  ELSE IF Authorize(u, t, "manage_roster") # "ok" THEN 403
  ELSE IF field \notin PlayerStatuses THEN 400
  ELSE IF player[t, pid] = NoRow THEN 404
  ELSE 200

PlayerUpdate(u, t, pid, field) ==
  LET code == PlayerUpdateCode(u, t, pid, field) IN
    /\ Idle
    /\ IF code = 200
         THEN player' = [player EXCEPT ![t, pid].status = field]
         ELSE UNCHANGED player
    /\ resp' = Response("PlayerUpdate", code, u, t, pid, field)
    /\ UNCHANGED <<team, member, game, inflight, user, atbat, now, stamps>>

(* ---------------------------------------------------------------------- *)
(* players/remove/handler.py: DELETE /teams/{teamId}/players/{playerId}    *)
(* ---------------------------------------------------------------------- *)
PlayerRemoveCode(u, t, pid) ==
  IF CheckTeamRole(u, t, {"team-owner", "team-coach"}) # "ok" THEN 403
  ELSE IF player[t, pid] = NoRow THEN 404
  ELSE IF player[t, pid].userId # None THEN 400
  ELSE IF ~player[t, pid].isGhost THEN 404
  ELSE 204

PlayerRemove(u, t, pid) ==
  LET code == PlayerRemoveCode(u, t, pid) IN
    /\ Idle
    /\ IF code = 204
         THEN player' = [player EXCEPT ![t, pid] = NoRow]
         ELSE UNCHANGED player
    /\ resp' = Response("PlayerRemove", code, u, t, pid, "")
    /\ UNCHANGED <<team, member, game, inflight, user, atbat, now, stamps>>

(* ---------------------------------------------------------------------- *)
(* A caller of authorize: the result is the membership or PermissionError. *)
(* ---------------------------------------------------------------------- *)
PermissionError == [error |-> "PermissionError"]

AuthorizeCall(u, t, action) ==
  /\ Idle
  /\ resp' = Response("authorize", 0, u, t, 0,
                      [action |-> action,
                       result |-> IF Authorize(u, t, action) = "ok"
                                    THEN member[u, t] ELSE PermissionError])
  /\ UNCHANGED <<team, member, player, game, inflight, user, atbat, now, stamps>>

(* ---------------------------------------------------------------------- *)
(* utils/validation.py: validate_game_status, validate_lineup              *)
(* ---------------------------------------------------------------------- *)
ValidStatuses == {"SCHEDULED", "IN_PROGRESS", "FINAL", "POSTPONED"}
Invalid == "invalid"

(* status.strip().upper() on the request strings the model sends.          *)
StripUpper(s) ==
  CASE s = "in_progress" -> "IN_PROGRESS"
    [] OTHER -> s

ValidateGameStatus(status) ==
  IF status = "" THEN "SCHEDULED"
  ELSE IF StripUpper(status) \in ValidStatuses THEN StripUpper(status)
  ELSE Invalid

Entry(p, order) == [playerId |-> p, battingOrder |-> order]

(* validate_lineup: every battingOrder >= 1 and no battingOrder twice.     *)
ValidLineup(lineup) ==
  /\ \A i \in 1..Len(lineup) : lineup[i].battingOrder >= 1
  /\ \A i, j \in 1..Len(lineup) :
       i # j => lineup[i].battingOrder # lineup[j].battingOrder

LineupPlayerIds(lineup) == {lineup[i].playerId : i \in 1..Len(lineup)}

(* ---------------------------------------------------------------------- *)
(* Request bodies of the game handlers: optional status and lineup.        *)
(* ---------------------------------------------------------------------- *)
StatusInputs == {"IN_PROGRESS", "in_progress", "FINAL", "bogus"}

LineupInputs ==
  {<<>>} \cup {<<Entry(p, 1)>> : p \in PlayerIds}
         \cup {<<Entry(1, 1), Entry(2, 2)>>, <<Entry(1, 1), Entry(2, 1)>>,
               <<Entry(2, 0)>>}

Body(hasStatus, status, hasLineup, lineup) ==
  [hasStatus |-> hasStatus, status |-> status,
   hasLineup |-> hasLineup, lineup |-> lineup]

GameBodies ==
  {Body(FALSE, Absent, FALSE, <<>>)}
    \cup {Body(TRUE, s, FALSE, <<>>) : s \in StatusInputs}
    \cup {Body(FALSE, Absent, TRUE, l) : l \in LineupInputs}
    \cup {Body(TRUE, s, TRUE, l) : s \in {"IN_PROGRESS", "in_progress"}, l \in LineupInputs}

GameRow(t, status, lineup) == [teamId |-> t, status |-> status, lineup |-> lineup]

(* ---------------------------------------------------------------------- *)
(* games/create/handler.py: POST /games                                    *)
(* ---------------------------------------------------------------------- *)
(* The caller's first active membership whose team is the "Default"        *)
(* PERSONAL team, or None.                                                 *)
IsDefaultTeam(u, t) ==
  /\ member[u, t] # NoRow
  /\ member[u, t].status = "active"
  /\ team[t] # NoRow
  /\ team[t].name = "Default"
  /\ team[t].team_type = "PERSONAL"

DefaultTeam(u) ==
  IF \E t \in TeamIds : IsDefaultTeam(u, t)
    THEN CHOOSE t \in TeamIds :
           IsDefaultTeam(u, t) /\ \A t2 \in TeamIds : IsDefaultTeam(u, t2) => t <= t2
    ELSE None

GameCreateTeam(u, teamId) == IF teamId = None THEN DefaultTeam(u) ELSE teamId

GameCreateCode(u, gid, teamId, body) ==
  LET team_id == GameCreateTeam(u, teamId) IN
    IF team_id = None THEN 400
    ELSE IF Authorize(u, team_id, "manage_games") # "ok" THEN 403
    ELSE IF body.hasStatus /\ ValidateGameStatus(body.status) = Invalid THEN 400
    ELSE IF body.hasLineup /\ ~ValidLineup(body.lineup) THEN 400
    ELSE IF game[gid] # NoRow THEN 409
    ELSE 201

GameCreate(u, gid, teamId, body) ==
  LET code == GameCreateCode(u, gid, teamId, body) IN
    /\ Idle
    /\ IF code = 201
         THEN game' = [game EXCEPT ![gid] =
                GameRow(GameCreateTeam(u, teamId),
                        IF body.hasStatus THEN ValidateGameStatus(body.status)
                                          ELSE "SCHEDULED",
                        IF body.hasLineup THEN body.lineup ELSE <<>>)]
         ELSE UNCHANGED game
    /\ resp' = Response("GameCreate", code, u, teamId, gid, body)
    /\ UNCHANGED <<team, member, player, inflight, user, atbat, now, stamps>>

(* ---------------------------------------------------------------------- *)
(* games/update/handler.py: PATCH /games/{gameId}                          *)
(* ---------------------------------------------------------------------- *)
TeamPlayerIds(t) == {p \in PlayerIds : player[t, p] # NoRow}

(* _validate_lineup_players_belong_to_team: no ValueError raised.          *)
LineupPlayersBelongToTeam(lineup, t) ==
  LineupPlayerIds(lineup) \subseteq TeamPlayerIds(t)

(* The gate on a request whose status is the string IN_PROGRESS: 0 when    *)
(* the request passes it, otherwise the status code it answers.            *)
LineupGate(g, body) ==
  LET t == game[g].teamId
      current_lineup == IF body.hasLineup THEN body.lineup ELSE game[g].lineup
  IN IF ~(body.hasStatus /\ body.status = "IN_PROGRESS") THEN 0
     ELSE IF team[t] = NoRow THEN 404
     ELSE IF TeamTypeOf(team[t]) = "MANAGED" /\ current_lineup = <<>> THEN 400
     ELSE 0

GameUpdateCode(u, g, body) ==
  IF ~body.hasStatus /\ ~body.hasLineup THEN 400
  ELSE IF game[g] = NoRow THEN 404
  ELSE IF Authorize(u, game[g].teamId, "manage_games") # "ok" THEN 403
  ELSE IF LineupGate(g, body) # 0 THEN LineupGate(g, body)
  ELSE IF body.hasStatus /\ ValidateGameStatus(body.status) = Invalid THEN 400
  ELSE IF body.hasLineup /\ ~ValidLineup(body.lineup) THEN 400
  ELSE IF body.hasLineup /\ ~LineupPlayersBelongToTeam(body.lineup, game[g].teamId)
    THEN 400
  ELSE 200

GameUpdate(u, g, body) ==
  LET code == GameUpdateCode(u, g, body) IN
    /\ Idle
    /\ IF code = 200
         THEN game' = [game EXCEPT ![g] =
                GameRow(game[g].teamId,
                        IF body.hasStatus THEN ValidateGameStatus(body.status)
                                          ELSE game[g].status,
                        IF body.hasLineup THEN body.lineup ELSE game[g].lineup)]
         ELSE UNCHANGED game
    /\ resp' = Response("GameUpdate", code, u,
                        IF game[g] = NoRow THEN None ELSE game[g].teamId, g, body)
    /\ UNCHANGED <<team, member, player, inflight, user, atbat, now, stamps>>

(* ---------------------------------------------------------------------- *)
(* The table as the handlers find it: a MANAGED team (1) owned by user 1   *)
(* with a linked and a ghost player and a game whose lineup is the ghost,  *)
(* and a PERSONAL team (2) owned by user 2 with its linked player and a    *)
(* game.  User 2's membership of team 1 and user 1's of team 2 vary.       *)
(* ---------------------------------------------------------------------- *)
MembershipChoices ==
  {NoRow} \cup {MemberRow(r, s) : r \in Roles, s \in MemberStatuses}

SeedTeams ==
  [t \in TeamIds |->
     IF t = 1 THEN TeamRow(1, "Sluggers", "MANAGED", FALSE)
     ELSE IF t = 2 THEN TeamRow(2, "Default", "PERSONAL", FALSE)
     ELSE NoRow]

SeedMembers(m21, m12) ==
  [k \in Users \X TeamIds |->
     IF k = <<1, 1>> \/ k = <<2, 2>> THEN OwnerMembership
     ELSE IF k = <<2, 1>> THEN m21
     ELSE IF k = <<1, 2>> THEN m12
     ELSE NoRow]

SeedPlayers ==
  [k \in TeamIds \X PlayerIds |->
     IF k = <<1, 1>> THEN PlayerRow(FALSE, 1, "active")
     ELSE IF k = <<1, 2>> THEN PlayerRow(TRUE, None, "active")
     ELSE IF k = <<2, 3>> THEN PlayerRow(FALSE, 2, "active")
     ELSE NoRow]

SeedGames(status1) ==
  [g \in GameIds |->
     IF g = 1 THEN GameRow(1, status1, <<Entry(2, 1)>>)
     ELSE IF g = 2 THEN GameRow(2, "SCHEDULED", <<>>)
     ELSE NoRow]

(* Every caller has signed up: a User row as users/create writes it.       *)
UserRow(u, at) == [userId |-> u, createdAt |-> at, firstName |-> "Sam"]

SeedUsers == [u \in Users |-> UserRow(u, 1)]

NoAtBats == [k \in GameIds \X AtBatIds |-> NoRow]

(* The seeded teams were written at time 1.                                *)
SeedStamps ==
  [t \in TeamIds |-> IF SeedTeams[t] = NoRow THEN NoStamp ELSE Stamp(1, None)]

Seeded(m21, m12, status1) ==
  /\ team = SeedTeams
  /\ member = SeedMembers(m21, m12)
  /\ player = SeedPlayers
  /\ game = SeedGames(status1)
  /\ resp = NoResponse
  /\ inflight = {}
  /\ user = SeedUsers
  /\ atbat = NoAtBats
  /\ now = 1
  /\ stamps = SeedStamps

Init ==
  \E m21 \in {NoRow, MemberRow("team-coach", "active")} :
    Seeded(m21, NoRow, "SCHEDULED")

(* ---------------------------------------------------------------------- *)
(* utils/api_gateway.py: create_response hands the answer to the caller    *)
(* and the invocation ends; the next request finds no answer pending.      *)
(* ---------------------------------------------------------------------- *)
Reply ==
  /\ resp # NoResponse
  /\ resp' = NoResponse
  /\ UNCHANGED <<team, member, player, game, inflight, user, atbat, now, stamps>>

(* ---------------------------------------------------------------------- *)
(* Team creation, rename and soft delete.                                  *)
(* ---------------------------------------------------------------------- *)
TeamsRequest ==
  \/ \E u \in Users, tid \in TeamIds, name \in NameInputs : TeamCreate(u, tid, name)
  \/ \E u \in Users, tid \in TeamIds, pid \in PlayerIds : CreatePersonalTeam(u, tid, pid)
  \/ \E u \in Users, t \in TeamIds, name \in NameInputs : TeamUpdate(u, t, name)
  \/ \E u \in Users, t \in TeamIds : TeamDelete(u, t)

NextTeams == Reply \/ TeamsRequest

SpecTeams == Init /\ [][NextTeams]_vars

(* ---------------------------------------------------------------------- *)
(* Callers of authorize over every membership user 2 may hold on team 1.   *)
(* ---------------------------------------------------------------------- *)
InitAuth ==
  \E m21 \in MembershipChoices : Seeded(m21, NoRow, "SCHEDULED")

AuthRequest ==
  \/ \E u \in Users, t \in TeamIds, a \in ActionNames : AuthorizeCall(u, t, a)
  \/ \E u \in Users, tid \in TeamIds : TeamCreate(u, tid, "Rockets")

NextAuth == Reply \/ AuthRequest

SpecAuth == InitAuth /\ [][NextAuth]_vars

(* ---------------------------------------------------------------------- *)
(* Roster management on MANAGED and PERSONAL teams.                        *)
(* ---------------------------------------------------------------------- *)
InitRoster ==
  \E m12 \in {NoRow, MemberRow("team-coach", "active"), MemberRow("team-viewer", "active")} :
    Seeded(MemberRow("team-coach", "active"), m12, "SCHEDULED")

RosterRequest ==
  \/ \E u \in Users, t \in TeamIds, pid \in PlayerIds, first \in FirstNameInputs :
       PlayerAdd(u, t, pid, first)
  \/ \E u \in Users, t \in TeamIds, pid \in PlayerIds, field \in PlayerUpdateInputs :
       PlayerUpdate(u, t, pid, field)
  \/ \E u \in Users, t \in TeamIds, pid \in PlayerIds : PlayerRemove(u, t, pid)
  \/ \E u \in Users, t \in TeamIds : TeamDelete(u, t)

NextRoster == Reply \/ RosterRequest

SpecRoster == InitRoster /\ [][NextRoster]_vars

(* ---------------------------------------------------------------------- *)
(* Games and the roster their lineups refer to.                            *)
(* ---------------------------------------------------------------------- *)
InitGames ==
  \E m21 \in {NoRow, MemberRow("team-coach", "active")},
     status1 \in {"SCHEDULED", "IN_PROGRESS"} :
    Seeded(m21, NoRow, status1)

GamesRequest ==
  \/ \E u \in Users, gid \in GameIds, teamId \in TeamIds \cup {None}, body \in GameBodies :
       GameCreate(u, gid, teamId, body)
  \/ \E u \in Users, g \in GameIds, body \in GameBodies : GameUpdate(u, g, body)
  \/ \E u \in Users, t \in TeamIds, pid \in PlayerIds : PlayerAdd(u, t, pid, "Ann")
  \/ \E u \in Users, t \in TeamIds, pid \in PlayerIds : PlayerRemove(u, t, pid)

NextGames == Reply \/ GamesRequest

SpecGames == InitGames /\ [][NextGames]_vars

(* ---------------------------------------------------------------------- *)
(* Every handler.                                                          *)
(* ---------------------------------------------------------------------- *)
Next == Reply \/ TeamsRequest \/ AuthRequest \/ RosterRequest \/ GamesRequest

Spec == Init /\ [][Next]_vars

(* ---------------------------------------------------------------------- *)
(* Team creation (SpecTeams)                                               *)
(* ---------------------------------------------------------------------- *)
(* The Player rows a step added under team t.                              *)
NewPlayers(t) == {p \in PlayerIds : player[t, p] = NoRow /\ player'[t, p] # NoRow}

(* C1: a team creation whose transaction is cancelled answers 409 and      *)
(* leaves every Team, Membership and Player row as it was; the creation    *)
(* that wins the id answers 201 and has all of its rows present: the Team, *)
(* the owner's Membership and the owner's Player.                          *)
C1_CreationAllRowsOrNone ==
  [][(resp'.op = "TeamCreate" /\ resp'.code \in {201, 409}) =>
       IF resp'.code = 409
         THEN UNCHANGED <<team, member, player>>
         ELSE /\ team[resp'.team] = NoRow
              /\ team'[resp'.team] # NoRow
              /\ member'[resp'.user, resp'.team] = OwnerMembership
              /\ \E p \in PlayerIds :
                   /\ player'[resp'.team, p] # NoRow
                   /\ player'[resp'.team, p].userId = resp'.user]_vars

(* C2: a successful POST /teams leaves exactly three new rows: the Team,   *)
(* the creator's active team-owner Membership, and exactly one Player      *)
(* under the team with userId = creator and isGhost = false.               *)
C2_CreationWritesThreeRows ==
  [][(resp'.op = "TeamCreate" /\ resp'.code = 201) =>
       /\ team[resp'.team] = NoRow /\ team'[resp'.team] # NoRow
       /\ member[resp'.user, resp'.team] = NoRow
       /\ member'[resp'.user, resp'.team] = OwnerMembership
       /\ Cardinality(NewPlayers(resp'.team)) = 1
       /\ \A p \in NewPlayers(resp'.team) :
            player'[resp'.team, p] = PlayerRow(FALSE, resp'.user, "active")]_vars

(* C3: in every state a Team row exists only together with its owner's     *)
(* active team-owner Membership row, and a team-owner Membership row       *)
(* exists only together with the Team row it names as owned by that user.  *)
C3_TeamIffOwnerMembership ==
  /\ \A t \in TeamIds :
       team[t] # NoRow => member[team[t].ownerId, t] = OwnerMembership
  /\ \A u \in Users, t \in TeamIds :
       (member[u, t] # NoRow /\ member[u, t].role = "team-owner")
         => (team[t] # NoRow /\ team[t].ownerId = u)

(* POST /teams has answered 201 and both rows of the new team are there.   *)
C3_Witness ==
  /\ resp.op = "TeamCreate"
  /\ resp.code = 201
  /\ team[resp.team] # NoRow
  /\ team[resp.team].ownerId = resp.user
  /\ member[resp.user, resp.team] = OwnerMembership

(* ---------------------------------------------------------------------- *)
(* Authorization (SpecAuth)                                                *)
(* ---------------------------------------------------------------------- *)
(* C4: authorize returns the caller's membership exactly when a Membership *)
(* row exists for (user, team), its status is active and its role is in    *)
(* the policy table's role set for the action; for an action the table     *)
(* does not hold it raises PermissionError for every caller and role.      *)
C4_AuthorizeIffActiveRoleInPolicy ==
  [][resp'.op = "authorize" =>
       LET m == member[resp'.user, resp'.team]
           a == resp'.arg.action
           result == resp'.arg.result
       IN /\ (result # PermissionError) <=>
               /\ m # NoRow
               /\ m.status = "active"
               /\ a \in DOMAIN POLICY_MAP
               /\ m.role \in POLICY_MAP[a]
          /\ (result # PermissionError) => result = m
          /\ (a \notin DOMAIN POLICY_MAP) => result = PermissionError]_vars

(* authorize has returned the owner's membership for manage_roster on team *)
(* 1 while the same team holds an inactive coach membership for user 2.    *)
C4_Witness ==
  /\ resp.op = "authorize"
  /\ resp.arg.action = "manage_roster"
  /\ resp.user = 1
  /\ resp.team = 1
  /\ resp.arg.result = OwnerMembership
  /\ member[2, 1] = MemberRow("team-coach", "inactive")

(* ---------------------------------------------------------------------- *)
(* PERSONAL teams (SpecTeams, SpecRoster)                                  *)
(* ---------------------------------------------------------------------- *)
(* The team is personal under either of its two marks.                     *)
IsPersonalRow(row) == row.team_type = "PERSONAL" \/ row.isPersonal

(* C5: on a PERSONAL team every rename, delete, player update and player   *)
(* removal is rejected for every caller, the owner included, and leaves    *)
(* the team row and its roster unchanged.                                  *)
C5_PersonalTeamOperationsRejected ==
  [][(/\ resp'.op \in {"TeamUpdate", "TeamDelete", "PlayerUpdate", "PlayerRemove"}
      /\ team[resp'.team] # NoRow
      /\ IsPersonalRow(team[resp'.team]))
       => (resp'.code >= 400 /\ team' = team /\ player' = player)]_vars

(* C6: adding a player to a team whose team_type is PERSONAL is rejected   *)
(* for every caller (owner, other role, non-member) and no Player row is   *)
(* created.                                                                *)
C6_AddPlayerToPersonalRejected ==
  [][(/\ resp'.op = "PlayerAdd"
      /\ team[resp'.team] # NoRow
      /\ team[resp'.team].team_type = "PERSONAL")
       => (resp'.code = 400 /\ player' = player)]_vars

(* The owner of the PERSONAL team asked to add a well-formed player to it  *)
(* under a free player id and was answered 400.                            *)
C6_Witness ==
  /\ resp.op = "PlayerAdd"
  /\ resp.arg = "Ann"
  /\ team[resp.team] # NoRow
  /\ team[resp.team].team_type = "PERSONAL"
  /\ team[resp.team].ownerId = resp.user
  /\ member[resp.user, resp.team] = OwnerMembership
  /\ player[resp.team, resp.id] = NoRow
  /\ resp.code = 400

(* ---------------------------------------------------------------------- *)
(* Games and lineups (SpecGames)                                           *)
(* ---------------------------------------------------------------------- *)
IsManagedGame(g) ==
  /\ game[g] # NoRow
  /\ team[game[g].teamId] # NoRow
  /\ TeamTypeOf(team[game[g].teamId]) = "MANAGED"

(* The caller holds an active team-owner membership on the game's team.    *)
OwnerCalls(u, g) == member[u, game[g].teamId] = OwnerMembership

C8_InProgressLineupReplaceNotEmpty ==
  [][(/\ resp'.op = "GameUpdate"
      /\ IsManagedGame(resp'.id)
      /\ game[resp'.id].status = "IN_PROGRESS"
      /\ OwnerCalls(resp'.user, resp'.id)
      /\ ~resp'.arg.hasStatus
      /\ resp'.arg.hasLineup)
       => IF resp'.arg.lineup = <<>>
            THEN resp'.code >= 400 /\ game' = game
            ELSE (/\ ValidLineup(resp'.arg.lineup)
                  /\ LineupPlayersBelongToTeam(resp'.arg.lineup, game[resp'.id].teamId))
                   => (/\ resp'.code = 200
                       /\ game'[resp'.id].lineup = resp'.arg.lineup)]_vars

(* C9: in every state every playerId in every stored game's lineup is the  *)
(* id of a Player row that exists under that game's team.                  *)
C9_LineupPlayersExist ==
  \A g \in GameIds :
    game[g] # NoRow =>
      \A p \in LineupPlayerIds(game[g].lineup) : player[game[g].teamId, p] # NoRow

(* C10: a game update whose lineup names a player with no Player row under *)
(* the game's team, sent by the team's owner, is answered with a           *)
(* validation error (400) and changes nothing of the game.                 *)
C10_ForeignLineupValidationError ==
  [][(/\ resp'.op = "GameUpdate"
      /\ game[resp'.id] # NoRow
      /\ OwnerCalls(resp'.user, resp'.id)
      /\ resp'.arg.hasLineup
      /\ ~LineupPlayersBelongToTeam(resp'.arg.lineup, game[resp'.id].teamId))
       => (resp'.code = 400 /\ game' = game)]_vars

(* ---------------------------------------------------------------------- *)
(* players/remove/handler.py as the two store calls it makes: get_item     *)
(* with the checks on what it read, then the conditional delete_item.      *)
(* Other requests run between the two.                                     *)
(* ---------------------------------------------------------------------- *)
MaxInflight == 2

Request(op, u, t, id) == [op |-> op, user |-> u, team |-> t, id |-> id]

(* The role check passed and the row read is there with no userId.         *)
PlayerRemoveReadPassesAnyPlayer(u, t, pid) ==
  /\ CheckTeamRole(u, t, {"team-owner", "team-coach"}) = "ok"
  /\ player[t, pid] # NoRow

PlayerRemoveReadPasses(u, t, pid) ==
  /\ CheckTeamRole(u, t, {"team-owner", "team-coach"}) = "ok"
  /\ player[t, pid] # NoRow
  /\ player[t, pid].userId = None

PlayerRemoveRead(u, t, pid) ==
  /\ Idle
  /\ IF PlayerRemoveReadPasses(u, t, pid)
       THEN /\ Cardinality(inflight) < MaxInflight
            /\ inflight' = inflight \cup {Request("PlayerRemove", u, t, pid)}
            /\ UNCHANGED resp
       ELSE /\ resp' = Response("PlayerRemove", PlayerRemoveCode(u, t, pid), u, t, pid, "")
            /\ UNCHANGED inflight
  /\ UNCHANGED <<team, member, player, game, user, atbat, now, stamps>>

(* ConditionExpression attribute_exists(PK) AND isGhost = :true            *)
PlayerRemoveCondition(t, pid) ==
  player[t, pid] # NoRow /\ player[t, pid].isGhost

PlayerRemoveDelete(r) ==
  /\ Idle
  /\ r \in inflight
  /\ r.op = "PlayerRemove"
  /\ inflight' = inflight \ {r}
  /\ IF PlayerRemoveCondition(r.team, r.id)
       THEN /\ player' = [player EXCEPT ![r.team, r.id] = NoRow]
            /\ resp' = Response("PlayerRemove", 204, r.user, r.team, r.id, "delete")
       ELSE /\ UNCHANGED player
            /\ resp' = Response("PlayerRemove", 404, r.user, r.team, r.id, "delete")
  /\ UNCHANGED <<team, member, game, user, atbat, now, stamps>>

NextRemove ==
  \/ Reply
  \/ \E u \in Users, t \in TeamIds, pid \in PlayerIds : PlayerRemoveRead(u, t, pid)
  \/ \E r \in inflight : PlayerRemoveDelete(r)
  \/ \E u \in Users, t \in TeamIds, pid \in PlayerIds : PlayerAdd(u, t, pid, "Ann")
  \/ \E u \in Users, t \in TeamIds, pid \in PlayerIds, field \in PlayerUpdateInputs :
       PlayerUpdate(u, t, pid, field)

SpecRemove == Init /\ [][NextRemove]_vars

(* C11: the remove-player operation never deletes a Player row that has a  *)
(* userId or is not a ghost at the moment of the delete, whatever runs     *)
(* between its read and its delete; a caller allowed to remove players who *)
(* asks to remove a linked player is answered 400, not 404.                *)
C11_LinkedPlayerNeverRemoved ==
  [][/\ \A t \in TeamIds, p \in PlayerIds :
          (player[t, p] # NoRow /\ player'[t, p] = NoRow)
            => /\ player[t, p].isGhost
               /\ player[t, p].userId = None
               /\ resp' = Response("PlayerRemove", 204, resp'.user, t, p, "delete")
     /\ (/\ resp'.op = "PlayerRemove"
         /\ CheckTeamRole(resp'.user, resp'.team, {"team-owner", "team-coach"}) = "ok"
         /\ player[resp'.team, resp'.id] # NoRow
         /\ player[resp'.team, resp'.id].userId # None)
          => resp'.code = 400]_vars

(* The owner was answered 400 for a linked player, who is still there,     *)
(* while a removal of a ghost player is between its read and its delete.   *)
C11_Witness ==
  /\ resp.op = "PlayerRemove"
  /\ resp.code = 400
  /\ player[resp.team, resp.id] # NoRow
  /\ player[resp.team, resp.id].userId = resp.user
  /\ \E r \in inflight : r.team = resp.team /\ player[r.team, r.id] # NoRow

(* ---------------------------------------------------------------------- *)
(* Every writer of Player rows (SpecPlayers)                               *)
(* ---------------------------------------------------------------------- *)
NextPlayers ==
  \/ Reply
  \/ \E u \in Users, t \in TeamIds, pid \in PlayerIds : PlayerAdd(u, t, pid, "Ann")
  \/ \E u \in Users, t \in TeamIds, pid \in PlayerIds, field \in {ReadOnlyField, "active"} :
       PlayerUpdate(u, t, pid, field)
  \/ \E u \in Users, tid \in TeamIds : CreatePersonalTeam(u, tid, 1)

SpecPlayers == Init /\ [][NextPlayers]_vars

(* C12: in every state every Player row has no userId if it is a ghost     *)
(* and has a userId if it is not a ghost.                                  *)
C12_GhostIffNoUser ==
  \A t \in TeamIds, p \in PlayerIds :
    player[t, p] # NoRow =>
      /\ player[t, p].isGhost => player[t, p].userId = None
      /\ ~player[t, p].isGhost => player[t, p].userId # None

GhostRows == {k \in TeamIds \X PlayerIds : player[k] # NoRow /\ player[k].isGhost}

(* A ghost was added, a personal team was created with its owner's linked  *)
(* player, and an update naming the read-only isGhost was answered 400.    *)
C12_Witness ==
  /\ resp.op = "PlayerUpdate"
  /\ resp.arg = ReadOnlyField
  /\ resp.code = 400
  /\ player[resp.team, resp.id] # NoRow
  /\ Cardinality(GhostRows) >= 2
  /\ \E t \in TeamIds, p \in PlayerIds :
       /\ team[t] # NoRow
       /\ team[t].isPersonal
       /\ player[t, p] # NoRow
       /\ player[t, p].userId = team[t].ownerId

(* ---------------------------------------------------------------------- *)
(* atbats/create/handler.py: POST /games/{gameId}/atbats                   *)
(* The body names a player or leaves playerId out; its other fields are    *)
(* well formed.  The at-bat id is the uuid the handler draws.              *)
(* ---------------------------------------------------------------------- *)
AtBatRow(g, t, pid) == [gameId |-> g, teamId |-> t, playerId |-> pid]

AtBatBody(g, pid) == [gameId |-> g, playerId |-> pid]

AtBatCreateCode(u, g, aid, pid) ==
  IF pid = None THEN 400
  ELSE IF game[g] = NoRow THEN 404
  ELSE IF team[game[g].teamId] = NoRow THEN 404
  ELSE IF Authorize(u, game[g].teamId, "manage_atbats") # "ok" THEN 403
  ELSE IF game[g].status # "IN_PROGRESS" THEN 400
  ELSE IF TeamTypeOf(team[game[g].teamId]) = "MANAGED" /\ game[g].lineup = <<>>
    THEN 400
  ELSE IF game[g].lineup # <<>> /\ pid \notin LineupPlayerIds(game[g].lineup)
    THEN 400
  ELSE IF atbat[g, aid] # NoRow THEN 409
  ELSE 201

AtBatCreate(u, g, aid, pid) ==
  LET code == AtBatCreateCode(u, g, aid, pid) IN
    /\ Idle
    /\ IF code = 201
         THEN atbat' = [atbat EXCEPT ![g, aid] = AtBatRow(g, game[g].teamId, pid)]
         ELSE UNCHANGED atbat
    /\ resp' = Response("AtBatCreate", code, u,
                        IF game[g] = NoRow THEN None ELSE game[g].teamId,
                        aid, AtBatBody(g, pid))
    /\ UNCHANGED <<team, member, player, game, inflight, user, now, stamps>>

(* ---------------------------------------------------------------------- *)
(* The conditional creates: players, games and at-bats, each under the id  *)
(* its handler drew, which may be one the table already holds.             *)
(* ---------------------------------------------------------------------- *)
NextCreates ==
  \/ Reply
  \/ \E u \in Users, t \in TeamIds, pid \in PlayerIds, first \in FirstNameInputs :
       PlayerAdd(u, t, pid, first)
  \/ \E u \in Users, gid \in GameIds, teamId \in TeamIds \cup {None}, body \in GameBodies :
       GameCreate(u, gid, teamId, body)
  \/ \E u \in Users, g \in GameIds, aid \in AtBatIds, pid \in PlayerIds \cup {None} :
       AtBatCreate(u, g, aid, pid)

SpecCreates == InitGames /\ [][NextCreates]_vars

(* A well-formed create by an active owner of the team it names.           *)
OwnerCreates(r) ==
  CASE r.op = "PlayerAdd" ->
         /\ r.arg # MissingFirstName
         /\ team[r.team] # NoRow /\ TeamTypeOf(team[r.team]) = "MANAGED"
         /\ member[r.user, r.team] = OwnerMembership
    [] r.op = "GameCreate" ->
         /\ r.team # None /\ member[r.user, r.team] = OwnerMembership
         /\ ~r.arg.hasStatus \/ ValidateGameStatus(r.arg.status) # Invalid
         /\ ~r.arg.hasLineup \/ ValidLineup(r.arg.lineup)
    [] r.op = "AtBatCreate" ->
         /\ r.team # None /\ member[r.user, r.team] = OwnerMembership
         /\ game[r.arg.gameId].status = "IN_PROGRESS"
         /\ r.arg.playerId \in LineupPlayerIds(game[r.arg.gameId].lineup)
    [] OTHER -> FALSE

(* The key a create is about to put already holds a row.                   *)
KeyHeld(r) ==
  CASE r.op = "PlayerAdd"   -> player[r.team, r.id] # NoRow
    [] r.op = "GameCreate"  -> game[r.id] # NoRow
    [] r.op = "AtBatCreate" -> atbat[r.arg.gameId, r.id] # NoRow
    [] OTHER -> FALSE

(* C13: a create of a player, game or at-bat under a key the table already *)
(* holds, sent well formed by an active owner of the team, is answered 409 *)
(* and leaves the row under that key as it was.                            *)
C13_ExistingKeyConflict ==
  [][(Idle /\ resp' # NoResponse /\ KeyHeld(resp') /\ OwnerCreates(resp'))
       => /\ resp'.code = 409
          /\ player' = player /\ game' = game /\ atbat' = atbat]_vars

(* ---------------------------------------------------------------------- *)
(* users/create/handler.py: the Cognito post-confirmation trigger.  The    *)
(* key is the caller's Cognito sub; the conditional put's failure on an    *)
(* existing row is swallowed and the event is returned either way (code 1).*)
(* ---------------------------------------------------------------------- *)
UserCreate(u) ==
  /\ Idle
  /\ IF user[u] = NoRow
       THEN user' = [user EXCEPT ![u] = UserRow(u, now)]
       ELSE UNCHANGED user
  /\ resp' = Response("UserCreate", 1, u, None, 0,
                      IF user[u] = NoRow THEN "created" ELSE "exists")
  /\ UNCHANGED <<team, member, player, game, inflight, atbat, now, stamps>>

(* ---------------------------------------------------------------------- *)
(* A retried create: the client saw no answer to a create that committed   *)
(* and sends the same request again.  The handler runs as for any request, *)
(* drawing a new uuid; the request carries no key of its own.  The answer  *)
(* records the id of the first invocation's resource in its id field.      *)
(* ---------------------------------------------------------------------- *)
TeamCreateRetry(tid) ==
  LET u == resp.user
      name == resp.arg
      code == TeamCreateCode(u, tid, name)
  IN /\ resp.op = "TeamCreate" /\ resp.code = 201
     /\ IF code = 201
          THEN TeamCreateWrites(u, tid, name)
          ELSE UNCHANGED <<team, member>>
     /\ resp' = Response("TeamCreateRetry", code, u, tid, resp.team, name)
     /\ stamps' = IF code = 201
                   THEN [stamps EXCEPT ![tid] = Stamp(now, None)]
                   ELSE stamps
     /\ UNCHANGED <<player, game, inflight, user, atbat, now>>

PlayerAddRetry(pid) ==
  LET u == resp.user
      t == resp.team
      first == resp.arg
      code == PlayerAddCode(u, t, pid, first)
  IN /\ resp.op = "PlayerAdd" /\ resp.code = 201
     /\ IF code = 201
          THEN player' = [player EXCEPT ![t, pid] = PlayerRow(TRUE, None, "active")]
          ELSE UNCHANGED player
     /\ resp' = Response("PlayerAddRetry", code, u, t, pid, first)
     /\ UNCHANGED <<team, member, game, inflight, user, atbat, now, stamps>>

(* The table of a fresh deployment: no row of any kind.                    *)
InitEmpty ==
  /\ team = [t \in TeamIds |-> NoRow]
  /\ member = [k \in Users \X TeamIds |-> NoRow]
  /\ player = [k \in TeamIds \X PlayerIds |-> NoRow]
  /\ game = [g \in GameIds |-> NoRow]
  /\ resp = NoResponse
  /\ inflight = {}
  /\ user = [u \in Users |-> NoRow]
  /\ atbat = NoAtBats
  /\ now = 1
  /\ stamps = [t \in TeamIds |-> NoStamp]

NextRetry ==
  \/ Reply
  \/ \E u \in Users : UserCreate(u)
  \/ \E u \in Users, tid \in TeamIds, name \in NameInputs : TeamCreate(u, tid, name)
  \/ \E tid \in TeamIds : TeamCreateRetry(tid)
  \/ \E u \in Users, pid \in PlayerIds : PlayerAdd(u, 1, pid, "Ann")
  \/ \E pid \in PlayerIds : PlayerAddRetry(pid)

SpecRetry == InitEmpty /\ [][NextRetry]_vars

(* C14: the retry of a create that committed reports Conflict or leaves    *)
(* the table as the first invocation left it, so that the request and its  *)
(* retries make one resource; and a second sign-up trigger for a user      *)
(* leaves the one User row.                                                *)
C14_RetryCreatesNothing ==
  [][/\ resp'.op \in {"TeamCreateRetry", "PlayerAddRetry"}
          => (resp'.code = 409 \/ (team' = team /\ member' = member /\ player' = player))
     /\ (resp'.op = "UserCreate" /\ user[resp'.user] # NoRow) => user' = user]_vars

(* ---------------------------------------------------------------------- *)
(* The transactional writers when transact_write_items raises whatever     *)
(* the rows are: the store cancels the transaction (a conflicting          *)
(* transaction on an item), or fails in another way.  Nothing is written.  *)
(* ---------------------------------------------------------------------- *)
StoreFailures == {"TransactionCanceledException", "InternalServerError"}

(* teams/create: 409 for a cancelled transaction; any other ClientError is *)
(* raised again and the handler's outer except answers 500.                *)
TeamCreateStoreFails(u, tid, name, failure) ==
  /\ Idle
  /\ name \in CleanNames
  /\ resp' = Response("TeamCreateStoreFails",
                      IF failure = "TransactionCanceledException" THEN 409 ELSE 500,
                      u, tid, 0, failure)
  /\ UNCHANGED <<team, member, player, game, inflight, user, atbat, now, stamps>>

(* create_personal_team: both branches only log; (None, None) is returned. *)
CreatePersonalTeamStoreFails(u, tid, pid, failure) ==
  /\ Idle
  /\ resp' = Response("CreatePersonalTeamStoreFails",
                      IF failure = "TransactionCanceledException" THEN 0 ELSE 0,
                      u, tid, pid, failure)
  /\ UNCHANGED <<team, member, player, game, inflight, user, atbat, now, stamps>>

NextFailures ==
  \/ Reply
  \/ \E u \in Users, tid \in TeamIds, name \in NameInputs : TeamCreate(u, tid, name)
  \/ \E u \in Users, tid \in TeamIds, pid \in PlayerIds : CreatePersonalTeam(u, tid, pid)
  \/ \E u \in Users, tid \in TeamIds, name \in NameInputs, failure \in StoreFailures :
       TeamCreateStoreFails(u, tid, name, failure)
  \/ \E u \in Users, tid \in TeamIds, pid \in PlayerIds, failure \in StoreFailures :
       CreatePersonalTeamStoreFails(u, tid, pid, failure)

SpecFailures == Init /\ [][NextFailures]_vars

(* C15: a team-creation transaction the store cancels is reported as       *)
(* Conflict (409) and one that fails in any other way as InternalError     *)
(* (500), by either transactional writer; so the caller can tell the two   *)
(* apart and neither reads as success.                                     *)
C15_StoreFailureReported ==
  [][resp'.op \in {"TeamCreateStoreFails", "CreatePersonalTeamStoreFails"}
       => resp'.code = (IF resp'.arg = "TransactionCanceledException"
                          THEN 409 ELSE 500)]_vars

(* ---------------------------------------------------------------------- *)
(* teams/get/handler.py: GET /teams/{teamId}.  The answer's arg is the     *)
(* error text, or the status of the team returned.                         *)
(* ---------------------------------------------------------------------- *)
TeamGetCode(t) ==
  IF team[t] = NoRow THEN 404
  ELSE IF team[t].status = "deleted" THEN 404
  ELSE 200

TeamGet(t) ==
  LET code == TeamGetCode(t) IN
    /\ Idle
    /\ resp' = Response("TeamGet", code, None, t, 0,
                        IF code = 404 THEN "Team not found" ELSE team[t].status)
    /\ UNCHANGED <<team, member, player, game, inflight, user, atbat, now, stamps>>

(* ---------------------------------------------------------------------- *)
(* teams/query/handler.py: GET /teams?userId= | ?ownerId= | (neither).     *)
(* A listing is the set of team ids it returns.                            *)
(* ---------------------------------------------------------------------- *)
ListAllTeams ==
  {t \in TeamIds : team[t] # NoRow /\ team[t].status # "deleted"}

ListTeamsByOwner(owner_id) ==
  {t \in TeamIds : /\ team[t] # NoRow
                   /\ team[t].ownerId = owner_id
                   /\ team[t].status # "deleted"}

ListUserTeamsWithDeleted(user_id) ==
  {t \in TeamIds : /\ member[user_id, t] # NoRow
                   /\ member[user_id, t].status = "active"
                   /\ team[t] # NoRow}

ListUserTeams(user_id) ==
  {t \in TeamIds : /\ member[user_id, t] # NoRow
                   /\ member[user_id, t].status = "active"
                   /\ team[t] # NoRow
                   /\ team[t].status # "deleted"}

QueryModes == {"userId", "ownerId", "all"}

TeamsQuery(mode, u) ==
  /\ Idle
  /\ resp' = Response("TeamsQuery", 200, u, None, 0,
                      [mode |-> mode,
                       teams |-> IF mode = "userId" THEN ListUserTeams(u)
                                 ELSE IF mode = "ownerId" THEN ListTeamsByOwner(u)
                                 ELSE ListAllTeams])
  /\ UNCHANGED <<team, member, player, game, inflight, user, atbat, now, stamps>>

(* ---------------------------------------------------------------------- *)
(* users/context/handler.py: GET /users/context                            *)
(* ---------------------------------------------------------------------- *)
ContextTeams(u) ==
  {t \in TeamIds : /\ member[u, t] # NoRow
                   /\ member[u, t].status = "active"
                   /\ team[t] # NoRow
                   /\ team[t].status # "deleted"}

UserContext(u) ==
  [has_personal_context |->
     \E t \in ContextTeams(u) : TeamTypeOf(team[t]) = "PERSONAL",
   has_managed_context |->
     \E t \in ContextTeams(u) : TeamTypeOf(team[t]) = "MANAGED"]

UserContextGet(u) ==
  /\ Idle
  /\ resp' = Response("UserContext", 200, u, None, 0, UserContext(u))
  /\ UNCHANGED <<team, member, player, game, inflight, user, atbat, now, stamps>>

(* ---------------------------------------------------------------------- *)
(* Teams created and soft-deleted, and every path that reads them.         *)
(* ---------------------------------------------------------------------- *)
NextListing ==
  \/ Reply
  \/ \E u \in Users, tid \in TeamIds : TeamCreate(u, tid, "Rockets")
  \/ \E u \in Users, t \in TeamIds : TeamDelete(u, t)
  \/ \E u \in Users, t \in TeamIds : TeamUpdate(u, t, "Rockets")
  \/ \E t \in TeamIds : TeamGet(t)
  \/ \E mode \in QueryModes, u \in Users : TeamsQuery(mode, u)
  \/ \E u \in Users : UserContextGet(u)

SpecListing == Init /\ [][NextListing]_vars

IsDeleted(t) == team[t] # NoRow /\ team[t].status = "deleted"

(* The teams a user context may count: those of the caller's active        *)
(* memberships that are not deleted.                                       *)
LiveTeamsOf(u) ==
  {t \in TeamIds : /\ member[u, t] # NoRow /\ member[u, t].status = "active"
                   /\ team[t] # NoRow /\ ~IsDeleted(t)}

(* C16: a soft-deleted team keeps its row with status deleted through      *)
(* every later operation; no listing (all teams, by owner, a user's teams) *)
(* returns it; the user context counts no deleted team; and get-by-id      *)
(* answers for it the 404 it answers for a team that never existed.        *)
C16_DeletedTeamHidden ==
  [][/\ \A t \in TeamIds :
          /\ (resp'.op = "TeamDelete" /\ resp'.code = 204 /\ resp'.team = t)
                => IsDeleted(t)'
          /\ IsDeleted(t) => IsDeleted(t)'
     /\ resp'.op = "TeamsQuery" => \A t \in resp'.arg.teams : ~IsDeleted(t)
     /\ resp'.op = "UserContext" =>
          /\ resp'.arg.has_personal_context =>
               \E t \in LiveTeamsOf(resp'.user) : TeamTypeOf(team[t]) = "PERSONAL"
          /\ resp'.arg.has_managed_context =>
               \E t \in LiveTeamsOf(resp'.user) : TeamTypeOf(team[t]) = "MANAGED"
     /\ (resp'.op = "TeamGet" /\ (IsDeleted(resp'.team) \/ team[resp'.team] = NoRow))
          => (resp'.code = 404 /\ resp'.arg = "Team not found")]_vars

(* A team was soft-deleted and its owner, still holding the active         *)
(* membership, was answered a listing of their teams.                      *)
C16_Witness ==
  /\ resp.op = "TeamsQuery" /\ resp.arg.mode = "userId"
  /\ \E t \in TeamIds :
       IsDeleted(t) /\ member[resp.user, t] = OwnerMembership

(* ---------------------------------------------------------------------- *)
(* users/delete/handler.py: DELETE /users/{userId}.  The handler reads the *)
(* path's userId only; the caller u is whoever sent the request.           *)
(* ---------------------------------------------------------------------- *)
UserDeleteCode(user_id) ==
  IF user_id = None THEN 400
  ELSE IF user[user_id] = NoRow THEN 404
  ELSE 204

UserDelete(u, user_id) ==
  LET code == UserDeleteCode(user_id) IN
    /\ Idle
    /\ IF code = 204
         THEN user' = [user EXCEPT ![user_id] = NoRow]
         ELSE UNCHANGED user
    /\ resp' = Response("UserDelete", code, u, None, user_id, "")
    /\ UNCHANGED <<team, member, player, game, inflight, atbat, now, stamps>>

(* ---------------------------------------------------------------------- *)
(* Users signing up, reading their context and teams, and being deleted.   *)
(* ---------------------------------------------------------------------- *)
NextUsers ==
  \/ Reply
  \/ \E u \in Users : UserCreate(u)
  \/ \E u \in Users, user_id \in Users \cup {None} : UserDelete(u, user_id)
  \/ \E u \in Users : UserContextGet(u)
  \/ \E mode \in QueryModes, u \in Users : TeamsQuery(mode, u)

SpecUsers == Init /\ [][NextUsers]_vars

(* C17: no operation removes a User row: a user that has a row before a    *)
(* step has one after it, a successful delete included.                    *)
C17_UserRowNeverRemoved ==
  [][\A u \in Users : user[u] # NoRow => user'[u] # NoRow]_vars

(* ---------------------------------------------------------------------- *)
(* utils/authorization.py: check_team_membership, "ok" or the reason of    *)
(* the PermissionError it raises.                                          *)
(* ---------------------------------------------------------------------- *)
CheckTeamMembershipKnownRole(u, t) ==
  IF member[u, t] = NoRow THEN "not_member"
  ELSE IF member[u, t].status # "active" THEN "inactive"
  ELSE IF member[u, t].role \notin Roles THEN "insufficient"
  ELSE "ok"

CheckTeamMembership(u, t) ==
  IF member[u, t] = NoRow THEN "not_member"
  ELSE IF member[u, t].status # "active" THEN "inactive"
  ELSE "ok"

(* ---------------------------------------------------------------------- *)
(* games/get/handler.py: GET /games/{gameId}                               *)
(* ---------------------------------------------------------------------- *)
GameGetCode(u, g) ==
  IF game[g] = NoRow THEN 404
  ELSE IF CheckTeamMembership(u, game[g].teamId) # "ok" THEN 403
  ELSE 200

GameGet(u, g) ==
  /\ Idle
  /\ resp' = Response("GameGet", GameGetCode(u, g), u,
                      IF game[g] = NoRow THEN None ELSE game[g].teamId, g, "")
  /\ UNCHANGED <<team, member, player, game, inflight, user, atbat, now, stamps>>

(* ---------------------------------------------------------------------- *)
(* games/delete/handler.py: DELETE /games/{gameId}                         *)
(* ---------------------------------------------------------------------- *)
GameDeleteCode(u, g) ==
  IF game[g] = NoRow THEN 404
  ELSE IF Authorize(u, game[g].teamId, "manage_games") # "ok" THEN 403
  ELSE 204

GameDelete(u, g) ==
  LET code == GameDeleteCode(u, g) IN
    /\ Idle
    /\ IF code = 204
         THEN game' = [game EXCEPT ![g] = NoRow]
         ELSE UNCHANGED game
    /\ resp' = Response("GameDelete", code, u,
                        IF game[g] = NoRow THEN None ELSE game[g].teamId, g, "")
    /\ UNCHANGED <<team, member, player, inflight, user, atbat, now, stamps>>

(* ---------------------------------------------------------------------- *)
(* Game operations by members and outsiders, on a table where game 1 is    *)
(* team 1's and game 2 was never created.                                  *)
(* ---------------------------------------------------------------------- *)
InitAccess ==
  /\ \E m21 \in MembershipChoices : member = SeedMembers(m21, NoRow)
  /\ team = SeedTeams
  /\ player = SeedPlayers
  /\ game = [SeedGames("SCHEDULED") EXCEPT ![2] = NoRow]
  /\ resp = NoResponse
  /\ inflight = {}
  /\ user = SeedUsers
  /\ atbat = NoAtBats
  /\ now = 1
  /\ stamps = SeedStamps

NextAccess ==
  \/ Reply
  \/ \E u \in Users, g \in GameIds : GameGet(u, g)
  \/ \E u \in Users, g \in GameIds, body \in GameBodies : GameUpdate(u, g, body)
  \/ \E u \in Users, g \in GameIds : GameDelete(u, g)
  \/ \E u \in Users, gid \in GameIds, teamId \in TeamIds \cup {None}, body \in GameBodies :
       GameCreate(u, gid, teamId, body)

SpecAccess == InitAccess /\ [][NextAccess]_vars

(* The caller holds no active membership on any team that has a game.      *)
Outsider(u) ==
  \A g \in GameIds :
    game[g] # NoRow => CheckTeamMembership(u, game[g].teamId) # "ok"

(* C18: a get, update or delete of a game by a caller with no active       *)
(* membership on the game's team is answered 403 whether or not the game   *)
(* exists; the answer never tells the caller which.                        *)
C18_OutsiderAlwaysForbidden ==
  [][(/\ resp'.op \in {"GameGet", "GameUpdate", "GameDelete"}
      /\ Outsider(resp'.user)
      /\ resp'.op = "GameUpdate" => (resp'.arg.hasStatus \/ resp'.arg.hasLineup))
       => resp'.code = 403]_vars

(* ---------------------------------------------------------------------- *)
(* Requests that the handlers refuse, among those they carry out: teams    *)
(* renamed and deleted, the roster changed, games updated and deleted,     *)
(* users deleted, by owners, other members and outsiders.                  *)
(* ---------------------------------------------------------------------- *)
NextRejects ==
  \/ Reply
  \/ \E u \in Users, t \in TeamIds, name \in NameInputs : TeamUpdate(u, t, name)
  \/ \E u \in Users, t \in TeamIds : TeamDelete(u, t)
  \/ \E u \in Users, t \in TeamIds, pid \in PlayerIds, first \in FirstNameInputs :
       PlayerAdd(u, t, pid, first)
  \/ \E u \in Users, t \in TeamIds, pid \in PlayerIds : PlayerRemove(u, t, pid)
  \/ \E u \in Users, g \in GameIds, body \in GameBodies : GameUpdate(u, g, body)
  \/ \E u \in Users, g \in GameIds : GameDelete(u, g)
  \/ \E u \in Users, user_id \in Users \cup {None} : UserDelete(u, user_id)

SpecRejects == InitRoster /\ [][NextRejects]_vars

Rejections == {400, 401, 403, 404}

(* C19: a request answered 400, 401, 403 or 404 wrote nothing: every row   *)
(* of the table is after the request what it was before it.                *)
C19_RejectedWritesNothing ==
  [][(Idle /\ resp'.code \in Rejections)
       => /\ team' = team /\ member' = member /\ player' = player
          /\ game' = game /\ user' = user /\ atbat' = atbat
          /\ stamps' = stamps]_vars

(* A delete of an existing, active team was refused with 403 and the team  *)
(* is still active.                                                        *)
C19_Witness ==
  /\ resp.op = "TeamDelete" /\ resp.code = 403
  /\ team[resp.team] # NoRow /\ team[resp.team].status = "active"

(* The caller holds the active membership with this role on the team.      *)
HoldsRole(u, t, role) == t # None /\ member[u, t] = MemberRow(role, "active")

(* A game request with nothing in it to refuse: a create with no status    *)
(* and no lineup under a free id, an update to FINAL, a delete; each of a  *)
(* game, or for a team, that exists.                                       *)
PlainGameRequest(r) ==
  CASE r.op = "GameCreate" ->
         r.team # None /\ game[r.id] = NoRow /\ ~r.arg.hasStatus /\ ~r.arg.hasLineup
    [] r.op = "GameUpdate" ->
         /\ game[r.id] # NoRow
         /\ r.arg.hasStatus /\ r.arg.status = "FINAL" /\ ~r.arg.hasLineup
    [] r.op = "GameDelete" -> game[r.id] # NoRow
    [] OTHER -> FALSE

GameSuccess(op) ==
  CASE op = "GameCreate" -> 201
    [] op = "GameUpdate" -> 200
    [] op = "GameDelete" -> 204

(* C20: on a team's games, the create, update and delete of an active      *)
(* team-owner pass authorization and succeed (201, 200, 204), and those of *)
(* an active team-viewer are refused with 403.                             *)
C20_OwnerManagesGames ==
  [][(Idle /\ PlainGameRequest(resp')) =>
       /\ HoldsRole(resp'.user, resp'.team, "team-owner")
            => resp'.code = GameSuccess(resp'.op)
       /\ HoldsRole(resp'.user, resp'.team, "team-viewer")
            => resp'.code = 403]_vars

(* ---------------------------------------------------------------------- *)
(* A caller of check_team_membership: the result is the membership or      *)
(* PermissionError.  The memberships it is given include rows whose role   *)
(* is none of the four the policy table names.                             *)
(* ---------------------------------------------------------------------- *)
UnknownRole == "team-mascot"

CheckTeamMembershipCall(u, t) ==
  /\ Idle
  /\ resp' = Response("check_team_membership", 0, u, t, 0,
                      IF CheckTeamMembership(u, t) = "ok"
                        THEN member[u, t] ELSE PermissionError)
  /\ UNCHANGED <<team, member, player, game, inflight, user, atbat, now, stamps>>

InitMembership ==
  \E m21 \in MembershipChoices \cup {MemberRow(UnknownRole, s) : s \in MemberStatuses},
     m12 \in {NoRow, MemberRow(UnknownRole, "active")} :
    Seeded(m21, m12, "SCHEDULED")

NextMembership ==
  \/ Reply
  \/ \E u \in Users, t \in TeamIds : CheckTeamMembershipCall(u, t)
  \/ \E u \in Users, g \in GameIds : GameGet(u, g)

SpecMembership == InitMembership /\ [][NextMembership]_vars

(* C21: check_team_membership returns the membership exactly when a        *)
(* Membership row exists for (user, team) and its status is active, be its *)
(* role any of the four or none of them; otherwise it raises               *)
(* PermissionError.                                                        *)
C21_MembershipIffActiveRow ==
  resp.op = "check_team_membership" =>
    LET m == member[resp.user, resp.team] IN
      /\ (resp.arg # PermissionError) <=> (m # NoRow /\ m.status = "active")
      /\ (resp.arg # PermissionError) => resp.arg = m

(* The check has passed a caller whose active membership carries a role    *)
(* the policy table does not name.                                         *)
C21_Witness ==
  /\ resp.op = "check_team_membership"
  /\ resp.arg = MemberRow(UnknownRole, "active")

(* C22: in every state each PERSONAL team, marked by team_type or by the   *)
(* isPersonal flag, has exactly one Player row, and that row is linked to  *)
(* the team's owner.                                                       *)
C22_PersonalTeamOnePlayer ==
  \A t \in TeamIds :
    (team[t] # NoRow /\ IsPersonalRow(team[t])) =>
      /\ Cardinality(TeamPlayerIds(t)) = 1
      /\ \A p \in TeamPlayerIds(t) :
           ~player[t, p].isGhost /\ player[t, p].userId = team[t].ownerId

(* ---------------------------------------------------------------------- *)
(* teams/update and teams/delete as the two steps they are: the checks,    *)
(* after which the handler reads its clock, and then an update_item that   *)
(* carries no ConditionExpression.  Other invocations run between the two. *)
(* The Team row exists at the write: no handler removes one.               *)
(* ---------------------------------------------------------------------- *)
MaxClock == 3

Tick ==
  /\ Idle
  /\ now < MaxClock
  /\ now' = now + 1
  /\ UNCHANGED <<team, member, player, game, resp, inflight, user, atbat, stamps>>

TimedRequest(op, u, t, arg, at) ==
  [op |-> op, user |-> u, team |-> t, arg |-> arg, at |-> at]

TeamUpdateRead(u, t, name) ==
  LET code == TeamUpdateCode(u, t, name) IN
    /\ Idle
    /\ IF code = 200
         THEN /\ Cardinality(inflight) < MaxInflight
              /\ inflight' = inflight \cup {TimedRequest("TeamUpdate", u, t, name, now)}
              /\ UNCHANGED resp
         ELSE /\ resp' = Response("TeamUpdate", code, u, t, 0, name)
              /\ UNCHANGED inflight
    /\ UNCHANGED <<team, member, player, game, user, atbat, now, stamps>>

TeamUpdateWrite(r) ==
  /\ Idle
  /\ r \in inflight
  /\ r.op = "TeamUpdate"
  /\ inflight' = inflight \ {r}
  /\ team' = [team EXCEPT ![r.team].name = r.arg]
  /\ stamps' = [stamps EXCEPT ![r.team].updatedAt = r.at]
  /\ resp' = Response("TeamUpdate", 200, r.user, r.team, 0, r.arg)
  /\ UNCHANGED <<member, player, game, user, atbat, now>>

TeamDeleteRead(u, t) ==
  LET code == TeamDeleteCode(u, t) IN
    /\ Idle
    /\ IF code = 204
         THEN /\ Cardinality(inflight) < MaxInflight
              /\ inflight' = inflight \cup {TimedRequest("TeamDelete", u, t, "", now)}
              /\ UNCHANGED resp
         ELSE /\ resp' = Response("TeamDelete", code, u, t, 0, "")
              /\ UNCHANGED inflight
    /\ UNCHANGED <<team, member, player, game, user, atbat, now, stamps>>

TeamDeleteWrite(r) ==
  /\ Idle
  /\ r \in inflight
  /\ r.op = "TeamDelete"
  /\ inflight' = inflight \ {r}
  /\ team' = [team EXCEPT ![r.team].status = "deleted"]
  /\ stamps' = [stamps EXCEPT ![r.team] = Stamp(r.at, r.at)]
  /\ resp' = Response("TeamDelete", 204, r.user, r.team, 0, "")
  /\ UNCHANGED <<member, player, game, user, atbat, now>>

(* Renames and deletes of team 1 by its owner and its coach, overlapping.  *)
NextStamps ==
  \/ Reply
  \/ Tick
  \/ \E u \in Users, name \in {BadName, "Rockets"} : TeamUpdateRead(u, 1, name)
  \/ \E r \in inflight : TeamUpdateWrite(r)
  \/ \E u \in Users : TeamDeleteRead(u, 1)
  \/ \E r \in inflight : TeamDeleteWrite(r)

SpecStamps == Init /\ [][NextStamps]_vars

(* C23: the updatedAt stored for a team never decreases: every update and  *)
(* soft delete that commits stamps a value no smaller than the one it      *)
(* overwrites, also when two writes to the team overlap.                   *)
C23_UpdatedAtNeverDecreases ==
  [][\A t \in TeamIds : stamps'[t].updatedAt >= stamps[t].updatedAt]_vars

(* ---------------------------------------------------------------------- *)
(* users/create as the two steps it is: the item is built with the clock's *)
(* reading, then put under the condition that the key is free.  Any        *)
(* number of triggers for one subject may be between the two steps.        *)
(* ---------------------------------------------------------------------- *)
UserCreateStart(u) ==
  /\ Idle
  /\ Cardinality(inflight) < MaxInflight
  /\ inflight' = inflight \cup {TimedRequest("UserCreate", u, None, "", now)}
  /\ UNCHANGED <<team, member, player, game, resp, user, atbat, now, stamps>>

UserCreatePutUnconditional(r) ==
  /\ Idle
  /\ r \in inflight
  /\ r.op = "UserCreate"
  /\ inflight' = inflight \ {r}
  /\ user' = [user EXCEPT ![r.user] = UserRow(r.user, r.at)]
  /\ resp' = Response("UserCreate", 1, r.user, None, 0, "created")
  /\ UNCHANGED <<team, member, player, game, atbat, now, stamps>>

UserCreatePut(r) ==
  /\ Idle
  /\ r \in inflight
  /\ r.op = "UserCreate"
  /\ inflight' = inflight \ {r}
  /\ IF user[r.user] = NoRow
       THEN user' = [user EXCEPT ![r.user] = UserRow(r.user, r.at)]
       ELSE UNCHANGED user
  /\ resp' = Response("UserCreate", 1, r.user, None, 0,
                      IF user[r.user] = NoRow THEN "created" ELSE "exists")
  /\ UNCHANGED <<team, member, player, game, atbat, now, stamps>>

NextSignup ==
  \/ Reply
  \/ Tick
  \/ \E u \in Users : UserCreateStart(u)
  \/ \E r \in inflight : UserCreatePut(r)
  \/ \E u \in Users : UserCreate(u)

SpecSignup == InitEmpty /\ [][NextSignup]_vars

(* C24: over any interleaving of sign-up triggers for a subject, the User  *)
(* row the first put wrote stays as it was written: a later trigger        *)
(* changes none of its attributes, and the subject has that one row.       *)
C24_FirstUserRowKept ==
  [][\A u \in Users : user[u] # NoRow => user'[u] = user[u]]_vars

(* A trigger that built its item later than the stored row was written     *)
(* found the key taken, and the row still carries the first stamp.         *)
C24_Witness ==
  /\ resp.op = "UserCreate" /\ resp.arg = "exists"
  /\ user[resp.user] # NoRow
  /\ user[resp.user].createdAt < now
  /\ \E r \in inflight : r.op = "UserCreate" /\ r.user = resp.user

(* ---------------------------------------------------------------------- *)
(* users/update/handler.py: PUT /users/{userId}.  The body is one field:   *)
(* the read-only email, an unknown one, or firstName with a value.  The    *)
(* handler reads the path's userId only; u is whoever sent the request.    *)
(* ---------------------------------------------------------------------- *)
ReadOnlyUserField == "email"
UserUpdateInputs == {ReadOnlyUserField, "bogus", MissingFirstName, "Ann"}

UserUpdateCode(user_id, field) ==
  IF user_id = None THEN 400
  ELSE IF field = ReadOnlyUserField \/ field = "bogus" THEN 400
  ELSE IF user[user_id] = NoRow THEN 404
  ELSE IF field = MissingFirstName THEN 400
  ELSE 200

UserUpdate(u, user_id, field) ==
  LET code == UserUpdateCode(user_id, field) IN
    /\ Idle
    /\ IF code = 200
         THEN user' = [user EXCEPT ![user_id].firstName = field]
         ELSE UNCHANGED user
    /\ resp' = Response("UserUpdate", code, u, None, user_id, field)
    /\ UNCHANGED <<team, member, player, game, inflight, atbat, now, stamps>>

(* Profiles updated and deleted by their users and by others.              *)
NextProfiles ==
  \/ Reply
  \/ \E u \in Users : UserCreate(u)
  \/ \E u \in Users, user_id \in Users \cup {None}, field \in UserUpdateInputs :
       UserUpdate(u, user_id, field)
  \/ \E u \in Users, user_id \in Users \cup {None} : UserDelete(u, user_id)

SpecProfiles == Init /\ [][NextProfiles]_vars

(* C25: an update or delete of an existing user's profile sent by another  *)
(* caller than that user is answered 403 and leaves the User row as it     *)
(* was.                                                                    *)
C25_OnlySelfChangesProfile ==
  [][(/\ resp'.op \in {"UserUpdate", "UserDelete"}
      /\ resp'.id # None
      /\ resp'.user # resp'.id
      /\ user[resp'.id] # NoRow)
       => (resp'.code = 403 /\ user' = user)]_vars

(* ---------------------------------------------------------------------- *)
(* users/update as the two steps it is: the checks, get_item among them,   *)
(* and then an update_item that carries no ConditionExpression.  On a key  *)
(* that holds no row, update_item makes one of the attributes it sets.     *)
(* ---------------------------------------------------------------------- *)
ProfileRequest(u, user_id, field, at) ==
  [op |-> "UserUpdate", user |-> u, id |-> user_id, arg |-> field, at |-> at]

PartialUserRow(field, at) == [firstName |-> field, updatedAt |-> at]

UserUpdateRead(u, user_id, field) ==
  LET code == UserUpdateCode(user_id, field) IN
    /\ Idle
    /\ IF code = 200
         THEN /\ Cardinality(inflight) < MaxInflight
              /\ inflight' = inflight \cup {ProfileRequest(u, user_id, field, now)}
              /\ UNCHANGED resp
         ELSE /\ resp' = Response("UserUpdate", code, u, None, user_id, field)
              /\ UNCHANGED inflight
    /\ UNCHANGED <<team, member, player, game, user, atbat, now, stamps>>

UserUpdateWrite(r) ==
  /\ Idle
  /\ r \in inflight
  /\ r.op = "UserUpdate"
  /\ inflight' = inflight \ {r}
  /\ user' = IF user[r.id] = NoRow
               THEN [user EXCEPT ![r.id] = PartialUserRow(r.arg, r.at)]
               ELSE [user EXCEPT ![r.id].firstName = r.arg]
  /\ resp' = Response("UserUpdate", 200, r.user, None, r.id, r.arg)
  /\ UNCHANGED <<team, member, player, game, atbat, now, stamps>>

(* Updates overlapping deletes: of users, and of games as far as the game  *)
(* handlers get.                                                           *)
NextUpserts ==
  \/ Reply
  \/ \E u \in Users, user_id \in Users, field \in {MissingFirstName, "Ann"} :
       UserUpdateRead(u, user_id, field)
  \/ \E r \in inflight : UserUpdateWrite(r)
  \/ \E u \in Users, user_id \in Users : UserDelete(u, user_id)
  \/ \E u \in Users, g \in GameIds, body \in GameBodies : GameUpdate(u, g, body)
  \/ \E u \in Users, g \in GameIds : GameDelete(u, g)

SpecUpserts == Init /\ [][NextUpserts]_vars

(* C26: the answer to an update of a user or a game leaves every key that  *)
(* held no row without a row, also when a delete of the row completed      *)
(* between the update's existence check and its write.                     *)
C26_UpdateCreatesNoRow ==
  [][resp'.op \in {"UserUpdate", "GameUpdate"} =>
       /\ \A u \in Users : user[u] = NoRow => user'[u] = NoRow
       /\ \A g \in GameIds : game[g] = NoRow => game'[g] = NoRow]_vars

(* ---------------------------------------------------------------------- *)
(* At-bats recorded while games are created, started and deleted.          *)
(* ---------------------------------------------------------------------- *)
NextAtBats ==
  \/ Reply
  \/ \E u \in Users, g \in GameIds, aid \in AtBatIds, pid \in PlayerIds \cup {None} :
       AtBatCreate(u, g, aid, pid)
  \/ \E u \in Users, g \in GameIds : GameDelete(u, g)
  \/ \E u \in Users, g \in GameIds, s \in {"IN_PROGRESS", "FINAL"} :
       GameUpdate(u, g, Body(TRUE, s, FALSE, <<>>))

SpecAtBats == InitGames /\ [][NextAtBats]_vars

NextDeleted ==
  \/ Reply
  \/ \E u \in Users, t \in TeamIds : TeamDelete(u, t)
  \/ \E u \in Users, t \in TeamIds, pid \in PlayerIds : PlayerAdd(u, t, pid, "Ann")
  \/ \E u \in Users, gid \in GameIds, teamId \in TeamIds :
       GameCreate(u, gid, teamId, Body(FALSE, "SCHEDULED", FALSE, <<>>))

SpecDeleted == InitRoster /\ [][NextDeleted]_vars

(* C28: no step creates a Player row or a Game row under a team whose      *)
(* status is deleted.                                                      *)
C28_NoRowUnderDeletedTeam ==
  [][\A t \in TeamIds : IsDeleted(t) =>
        /\ \A pid \in PlayerIds :
             player[t, pid] = NoRow => player'[t, pid] = NoRow
        /\ \A gid \in GameIds :
             game[gid] = NoRow => (game'[gid] = NoRow \/ game'[gid].teamId # t)]_vars

(* C29: once a team's status is deleted, no step changes its row: neither  *)
(* its attributes nor its updatedAt and deletedAt.                         *)
C29_DeletedRowNeverChanges ==
  [][\A t \in TeamIds : IsDeleted(t) =>
        (team'[t] = team[t] /\ stamps'[t] = stamps[t])]_vars

(* ---------------------------------------------------------------------- *)
(* Teams of both kinds created in an empty table, and the readers of the   *)
(* team type.                                                              *)
(* ---------------------------------------------------------------------- *)
NextTypes ==
  \/ Reply
  \/ \E u \in Users, tid \in TeamIds : CreatePersonalTeam(u, tid, 1)
  \/ \E u \in Users, tid \in TeamIds : TeamCreate(u, tid, "Rockets")
  \/ \E u \in Users, t \in TeamIds : PlayerAdd(u, t, 2, "Ann")
  \/ \E u \in Users : UserContextGet(u)

SpecTypes == InitEmpty /\ [][NextTypes]_vars

(* C30: in every state every team is personal by its isPersonal flag, as   *)
(* check_personal_team_operation reads it, exactly when it is PERSONAL by  *)
(* its team_type attribute, as add-player, the lineup gate and the user    *)
(* context read it.                                                        *)
C30_TeamTypeRepresentationsAgree ==
  \A t \in TeamIds :
    team[t] # NoRow =>
      (CheckPersonalTeamOperation(t, "manage_roster") = "blocked"
         <=> TeamTypeOf(team[t]) = "PERSONAL")

====
